---------------------------- MODULE Spec2Model ----------------------------
(***************************************************************************)
(* A model of confindent (src/src/lib.rs): configuration by indentation.   *)
(*                                                                         *)
(* A Rust String is a sequence of one-character strings.  A ConfHash       *)
(* (HashMap<String, ConfSection>) is a set of entries [key, sec]; a        *)
(* ConfSection is a record [value, indent_level, children]; a ConfItem is  *)
(* [tag |-> "Empty"] or [tag |-> "Text", s |-> <string>].                  *)
(***************************************************************************)
EXTENDS Integers, Sequences, FiniteSets, TLC

VARIABLES
    profile,    \* "debug" (overflow checks on) or "release" (wrapping)
    mode,       \* position of the program, see Spec / SpecLine / SpecVec / SpecText
    doc,        \* Confindent.sections of the document being built
    hist,       \* events from_str has attached so far: [key, depth, at]
    last,       \* the call that produced this state
    rt,         \* the outcome of from_str(Into<String>(doc))
    line,       \* SpecLine: the argument of ConfSection::parse
    ev,         \* SpecLine: what ConfSection::parse returned
    vec_in,     \* SpecVec: the ConfItem get_vec is called on
    vec_out,    \* SpecVec: what get_vec returned
    text,       \* SpecText: [base, blank, pos], a text and a blank line to insert
    out         \* SpecText: the outcomes of from_str on both texts

vars == <<profile, mode, doc, hist, last, rt, line, ev,
          vec_in, vec_out, text, out>>

---------------------------------------------------------------------------
(* Characters and strings *)

TAB == "\t"
SP == " "
NL == "\n"

\* char::is_whitespace, on the characters the model uses
is_whitespace(c) == c \in {TAB, SP, NL}

starts_with(s, p) == Len(s) >= Len(p) /\ SubSeq(s, 1, Len(p)) = p

Drop(s, n) == SubSeq(s, n + 1, Len(s))

\* str::trim_start
trim_start(s) ==
    IF \A i \in 1..Len(s) : is_whitespace(s[i])
    THEN << >>
    ELSE LET n == CHOOSE i \in 1..Len(s) :
                     ~is_whitespace(s[i]) /\ \A j \in 1..(i - 1) : is_whitespace(s[j])
         IN SubSeq(s, n, Len(s))

\* str::trim_end
trim_end(s) ==
    IF \A i \in 1..Len(s) : is_whitespace(s[i])
    THEN << >>
    ELSE LET n == CHOOSE i \in 1..Len(s) :
                     ~is_whitespace(s[i])
                         /\ \A j \in (i + 1)..Len(s) : is_whitespace(s[j])
         IN SubSeq(s, 1, n)

\* str::trim
trim(s) == trim_end(trim_start(s))

\* str::split(pred): one piece per separator character, empty pieces kept
RECURSIVE split(_, _)
split(s, seps) ==
    IF \A i \in 1..Len(s) : s[i] \notin seps
    THEN <<s>>
    ELSE LET i == CHOOSE j \in 1..Len(s) :
                     s[j] \in seps /\ \A h \in 1..(j - 1) : s[h] \notin seps
         IN <<SubSeq(s, 1, i - 1)>> \o split(Drop(s, i), seps)

Whitespace == {TAB, SP, NL}

---------------------------------------------------------------------------
(* ConfItem, ConfSection, ConfHash *)

U8Max == 255

Empty == [tag |-> "Empty"]
Text(s) == [tag |-> "Text", s |-> s]

\* ConfItem::parse
ConfItem_parse(s) == Text(s)

\* HashMap::new
HashNew == {}

\* ConfSection::new
ConfSection_new(value, indent_level, children) ==
    [value |-> value, indent_level |-> indent_level, children |-> children]

\* u8 + 1: a panic under overflow checks, a wrap without them
Overflows(n) == n = U8Max
u8_inc(n) == (n + 1) % (U8Max + 1)

None == [kind |-> "None"]
Panic == [kind |-> "Panic"]
Some(key, sec) == [kind |-> "Some", key |-> key, sec |-> sec]

\* the condition of the while loop of ConfSection::parse
indent_cond(st) ==
    starts_with(st.rest, <<TAB>>) \/ starts_with(st.rest, <<SP, SP>>)

\* One pass through the while loop (no change once its condition is false):
\* [rest, indent_level, overflowed].  workable.get(offset..) is never None
\* here: the condition has just found offset characters at the start.
indent_step(st) ==
    IF indent_cond(st)
    THEN LET offset == IF starts_with(st.rest, <<TAB>>) THEN 1 ELSE 2
         IN [rest |-> Drop(st.rest, offset),
             indent_level |-> u8_inc(st.indent_level),
             overflowed |-> st.overflowed \/ Overflows(st.indent_level)]
    ELSE st

indent_step4(st) == indent_step(indent_step(indent_step(indent_step(st))))

\* the while loop of ConfSection::parse, sixteen passes to a level of recursion
RECURSIVE indent_loop(_)
indent_loop(st) ==
    IF indent_cond(st)
    THEN indent_loop(indent_step4(indent_step4(indent_step4(indent_step4(st)))))
    ELSE st

strip_indent(workable, indent_level, overflowed) ==
    indent_loop([rest |-> workable, indent_level |-> indent_level,
                 overflowed |-> overflowed])

\* ConfSection::parse without its blank-line test
ConfSection_parse_noblank(s, prof) ==
    LET st == strip_indent(s, 0, FALSE)
        parts == split(st.rest, Whitespace)
        value == IF Len(parts) >= 2 THEN ConfItem_parse(parts[2]) ELSE Empty
    IN IF st.overflowed /\ prof = "debug"
       THEN Panic
       ELSE Some(parts[1], ConfSection_new(value, st.indent_level, HashNew))

\* ConfSection::parse
ConfSection_parse(s, prof) ==
    IF s = << >> \/ trim_start(s) = << >>
    THEN None
    ELSE LET st == strip_indent(s, 0, FALSE)
             parts == split(st.rest, Whitespace)
             key == parts[1]
             value == IF Len(parts) >= 2 THEN ConfItem_parse(parts[2]) ELSE Empty
         IN IF st.overflowed /\ prof = "debug"
            THEN Panic
            ELSE Some(key, ConfSection_new(value, st.indent_level, HashNew))

---------------------------------------------------------------------------
(* HashMap<String, ConfSection> as a set of entries *)

contains_key(m, k) == \E e \in m : e.key = k

HashGet(m, k) == (CHOOSE e \in m : e.key = k).sec

\* HashMap::insert: the entry under k, if any, is replaced
HashInsert(m, k, sec) == {e \in m : e.key # k} \cup {[key |-> k, sec |-> sec]}

\* the section reached by child_mut(path[1]).child_mut(path[2])...
RECURSIVE SecAt(_, _)
SecAt(m, path) ==
    IF Len(path) = 1
    THEN HashGet(m, path[1])
    ELSE SecAt(HashGet(m, path[1]).children, Tail(path))

\* the mapping a path names: << >> is the Document's top level
MapAt(m, path) == IF path = << >> THEN m ELSE SecAt(m, path).children

\* the tree after the section at path was mutated in place into sec
RECURSIVE PutAt(_, _, _)
PutAt(m, path, sec) ==
    LET others == {e \in m : e.key # path[1]}
    IN IF Len(path) = 1
       THEN others \cup {[key |-> path[1], sec |-> sec]}
       ELSE LET p == HashGet(m, path[1])
            IN others \cup
               {[key |-> path[1],
                 sec |-> [p EXCEPT !.children = PutAt(@, Tail(path), sec)]]}

RECURSIVE Paths(_)
Paths(m) ==
    UNION {{<<e.key>>} \cup {<<e.key>> \o p : p \in Paths(e.sec.children)} :
           e \in m}

Nodes(m) == Cardinality(Paths(m))

---------------------------------------------------------------------------
(* Confindent::add_section *)

\* the top-level entries the reverse scan of add_section accepts
Candidates(sections, cs) ==
    {e \in sections : e.sec.indent_level = cs.indent_level - 1}

\* Where add_section puts cs: << >> is the top level, <<k>> the children of
\* top-level k.  The scan walks HashMap::iter_mut() backwards and takes the
\* first candidate; a HashMap's iteration order is arbitrary (RandomState),
\* so any candidate can be the one it meets first.
AttachPoints(sections, cs) ==
    IF sections = {} \/ cs.indent_level = 0
    THEN {<< >>}
    ELSE IF Candidates(sections, cs) = {}
         THEN {<< >>}
         ELSE {<<e.key>> : e \in Candidates(sections, cs)}

add_section_at(sections, key, cs, at) ==
    IF at = << >>
    THEN HashInsert(sections, key, cs)
    ELSE LET p == HashGet(sections, at[1])
         IN PutAt(sections, at,
                  [p EXCEPT !.children = HashInsert(@, key, cs)])

\* every tree add_section can leave
add_section(sections, key, cs) ==
    {add_section_at(sections, key, cs, at) : at \in AttachPoints(sections, cs)}

---------------------------------------------------------------------------
(* impl FromStr for Confindent *)

\* str::lines, on "\n" line ends
str_lines(s) ==
    LET pieces == split(s, {NL})
    IN IF pieces[Len(pieces)] = << >>
       THEN SubSeq(pieces, 1, Len(pieces) - 1)
       ELSE pieces

Ok(sections) == [kind |-> "Ok", sections |-> sections]

\* the for loop of from_str: every outcome it can end with
RECURSIVE from_str_loop(_, _, _)
from_str_loop(lines, sections, prof) ==
    IF lines = << >>
    THEN {Ok(sections)}
    ELSE LET r == ConfSection_parse(Head(lines), prof)
         IN CASE r.kind = "None" -> from_str_loop(Tail(lines), sections, prof)
              [] r.kind = "Panic" -> {Panic}
              [] r.kind = "Some" ->
                   UNION {from_str_loop(Tail(lines), m, prof) :
                          m \in add_section(sections, r.key, r.sec)}

\* Confindent::from_str
from_str(s, prof) ==
    IF s = << >> \/ trim_start(s) = << >>
    THEN {Ok(HashNew)}
    ELSE from_str_loop(str_lines(s), HashNew, prof)

---------------------------------------------------------------------------
(* impl Into<String> for Confindent, ConfSection::into_string *)

\* impl Display for ConfItem
Display(item) == IF item.tag = "Empty" THEN << >> ELSE item.s

\* str::replace('\n', "\n\t")
RECURSIVE replace_nl(_)
replace_nl(s) ==
    IF s = << >>
    THEN << >>
    ELSE (IF Head(s) = NL THEN <<NL, TAB>> ELSE <<Head(s)>>) \o replace_nl(Tail(s))

\* ConfSection::into_string: one string per iteration order of the maps
RECURSIVE into_string(_, _)
RECURSIVE children_strings(_)
children_strings(m) ==
    IF m = {}
    THEN {<< >>}
    ELSE UNION {{<<NL, TAB>> \o replace_nl(c) \o r :
                 c \in into_string(e.key, e.sec),
                 r \in children_strings(m \ {e})} : e \in m}

into_string(key, sec) ==
    {key \o <<SP>> \o Display(sec.value) \o r : r \in children_strings(sec.children)}

RECURSIVE sections_strings(_)
sections_strings(m) ==
    IF m = {}
    THEN {<< >>}
    ELSE UNION {{<<NL>> \o c \o r :
                 c \in into_string(e.key, e.sec),
                 r \in sections_strings(m \ {e})} : e \in m}

\* Into<String>::into
Confindent_into(sections) == {trim(s) : s \in sections_strings(sections)}

---------------------------------------------------------------------------
(* impl ConfParent, ConfSection::set_value *)

\* a create_child that keeps the children of the entry it replaces
Confindent_create_child_keep(sections, key, value) ==
    HashInsert(sections, key,
               ConfSection_new(ConfItem_parse(value), 0,
                               IF contains_key(sections, key)
                               THEN HashGet(sections, key).children
                               ELSE HashNew))

\* Confindent::create_child
Confindent_create_child(sections, key, value) ==
    HashInsert(sections, key,
               ConfSection_new(ConfItem_parse(value), 0, HashNew))

\* ConfSection::create_child, on the section itself
ConfSection_create_child(sec, key, value) ==
    [sec EXCEPT !.children =
        HashInsert(@, key,
                   ConfSection_new(ConfItem_parse(value),
                                   u8_inc(sec.indent_level), HashNew))]

\* ConfSection::set_value
ConfSection_set_value(sec, value) == [sec EXCEPT !.value = ConfItem_parse(value)]

---------------------------------------------------------------------------
(* ConfItem::get, ConfSection::get_vec, at T = u8 (tests::get_config_vec) *)

Err == [kind |-> "Err"]
OkV(v) == [kind |-> "Ok", v |-> v]
SomeV(v) == [kind |-> "Some", v |-> v]

Digits == {"0", "1", "2", "3", "4", "5", "6", "7", "8", "9"}

DigitVal(c) ==
    CASE c = "0" -> 0 [] c = "1" -> 1 [] c = "2" -> 2 [] c = "3" -> 3
      [] c = "4" -> 4 [] c = "5" -> 5 [] c = "6" -> 6 [] c = "7" -> 7
      [] c = "8" -> 8 [] c = "9" -> 9

RECURSIVE DecValue(_)
DecValue(s) ==
    IF s = << >> THEN 0
    ELSE 10 * DecValue(SubSeq(s, 1, Len(s) - 1)) + DigitVal(s[Len(s)])

\* <u8 as FromStr>::from_str, on unsigned digit strings
u8_from_str(s) ==
    IF s = << >> \/ \E i \in 1..Len(s) : s[i] \notin Digits
    THEN Err
    ELSE IF DecValue(s) > U8Max THEN Err ELSE OkV(DecValue(s))

\* ConfItem::get::<String>: <String as FromStr>::from_str never fails
ConfItem_get_String(item) ==
    IF item.tag = "Empty" THEN None ELSE SomeV(item.s)

\* Iterator::collect::<Result<Vec<T>, _>>: the first Err ends it
RECURSIVE collect_result(_)
collect_result(rs) ==
    IF rs = << >> THEN OkV(<< >>)
    ELSE IF Head(rs).kind = "Err" THEN Err
    ELSE LET r == collect_result(Tail(rs))
         IN IF r.kind = "Err" THEN Err ELSE OkV(<<Head(rs).v>> \o r.v)

\* a collect that drops the pieces that fail to convert
RECURSIVE collect_partial(_)
collect_partial(rs) ==
    IF rs = << >> THEN OkV(<< >>)
    ELSE IF Head(rs).kind = "Err" THEN collect_partial(Tail(rs))
    ELSE OkV(<<Head(rs).v>> \o collect_partial(Tail(rs)).v)

get_vec_partial(item) ==
    LET x == ConfItem_get_String(item)
    IN IF x.kind = "None" THEN None
       ELSE LET pieces == split(x.v, {","})
                rs == [i \in 1..Len(pieces) |-> u8_from_str(trim(pieces[i]))]
            IN SomeV(collect_partial(rs).v)

\* ConfSection::get_vec, on the Section's value
get_vec(item) ==
    LET x == ConfItem_get_String(item)
    IN IF x.kind = "None" THEN None
       ELSE LET pieces == split(x.v, {","})
                rs == [i \in 1..Len(pieces) |-> u8_from_str(trim(pieces[i]))]
                r == collect_result(rs)
            IN IF r.kind = "Ok" THEN SomeV(r.v) ELSE None

---------------------------------------------------------------------------
(* Bounds and inputs *)

MaxDepth == 2       \* deepest ordinary indentation of a builder line
MaxLines == 3       \* events one from_str run attaches
MaxNodes == 3       \* Sections a create_child may grow the Document to

Keys == {<<"A">>, <<"B">>}

\* the value create_child and set_value store; parsed lines carry "1"
Values == {<<"2">>}

Tabs(n) == [i \in 1..n |-> TAB]

\* blank lines: empty, indent only
BlankLines == {<< >>, <<TAB>>}

\* The lines from_str is fed, all tab indented: each key at each depth, two
\* lines with a value, blank lines, and the two lines at the edge of the u8
\* depth (U8Max and U8Max + 1 tabs before the key "A").
BuilderLines ==
    {Tabs(d) \o k : d \in 0..MaxDepth, k \in Keys}
    \cup {<<"A", SP, "1">>, <<TAB, "B", SP, "1">>}
    \cup BlankLines
    \cup {Tabs(U8Max) \o <<"A">>, Tabs(U8Max + 1) \o <<"A">>}

NoResult == [kind |-> "NoResult"]

Profiles == {"debug", "release"}

\* ConfSection::parse on every builder line, under each build profile
ParsedBuilderLines ==
    {[line |-> l, prof |-> p, r |-> ConfSection_parse(l, p)] :
        l \in BuilderLines, p \in Profiles}

---------------------------------------------------------------------------
(* Spec: a Document is parsed line by line (from_str), returned, then      *)
(* changed through create_child / set_value and at last serialized and     *)
(* parsed back.  Confindent::new() is from_str of no lines.                *)

\* what an insert of k into mapping m displaces
Displaced(m, k) ==
    IF ~contains_key(m, k) THEN "absent"
    ELSE IF HashGet(m, k).children = {} THEN "leaf" ELSE "subtree"

\* the record of a call: the operation, how it ended, the mapping (path) and
\* key it inserted into, the value it stored, what the insert displaced
Call(op, end, path, key, value, old) ==
    [op |-> op, ev |-> end, path |-> path, key |-> key, value |-> value,
     old |-> old]

NoCall(op) == Call(op, "-", << >>, << >>, Empty, "absent")

Init ==
    /\ profile \in Profiles
    /\ mode = "parsing"
    /\ doc = HashNew
    /\ hist = << >>
    /\ last = NoCall("new")
    /\ rt = NoResult
    /\ line = << >>
    /\ ev = NoResult
    /\ vec_in = Empty
    /\ vec_out = NoResult
    /\ text = << >>
    /\ out = NoResult

\* one iteration of the for loop of from_str
ParseLine ==
    /\ mode = "parsing"
    /\ Len(hist) < MaxLines
    /\ \E pl \in ParsedBuilderLines :
         LET r == pl.r
         IN /\ pl.prof = profile
            /\ CASE r.kind = "None" ->
                      /\ last' = NoCall("line")
                      /\ UNCHANGED <<mode, doc, hist>>
                 [] r.kind = "Panic" ->
                      /\ mode' = "parse_panic"
                      /\ last' = Call("line", "Panic", << >>, << >>, Empty, "absent")
                      /\ UNCHANGED <<doc, hist>>
                 [] r.kind = "Some" ->
                      \E at \in AttachPoints(doc, r.sec) :
                         /\ doc' = add_section_at(doc, r.key, r.sec, at)
                         /\ hist' = Append(hist, [key |-> r.key,
                                                  depth |-> r.sec.indent_level,
                                                  at |-> at])
                         /\ last' = Call("line", "Some", at, r.key, r.sec.value,
                                         Displaced(MapAt(doc, at), r.key))
                         /\ UNCHANGED mode
    /\ UNCHANGED <<profile, rt, line, ev, vec_in, vec_out, text, out>>

\* from_str returns Ok(ret)
FromStrReturn ==
    /\ mode = "parsing"
    /\ mode' = "ready"
    /\ hist' = << >>
    /\ last' = NoCall("from_str")
    /\ UNCHANGED <<profile, doc, rt, line, ev, vec_in, vec_out, text, out>>

\* Confindent::create_child
CreateChildTop ==
    /\ mode = "ready"
    /\ \E k \in Keys, v \in Values :
         /\ doc' = Confindent_create_child(doc, k, v)
         /\ Nodes(doc') <= MaxNodes
         /\ last' = Call("create_child", "Some", << >>, k, Text(v),
                         Displaced(doc, k))
    /\ UNCHANGED <<profile, mode, hist, rt, line, ev, vec_in, vec_out,
                   text, out>>

\* ConfSection::create_child on the Section child_mut reaches by path
CreateChildSec ==
    /\ mode = "ready"
    /\ \E path \in Paths(doc), k \in Keys, v \in Values :
         LET sec == SecAt(doc, path)
         IN IF Overflows(sec.indent_level) /\ profile = "debug"
            THEN /\ mode' = "create_panic"
                 /\ last' = Call("create_child", "Panic", path, k, Text(v),
                                 "absent")
                 /\ UNCHANGED doc
            ELSE /\ doc' = PutAt(doc, path, ConfSection_create_child(sec, k, v))
                 /\ Nodes(doc') <= MaxNodes
                 /\ last' = Call("create_child", "Some", path, k, Text(v),
                                 Displaced(sec.children, k))
                 /\ UNCHANGED mode
    /\ UNCHANGED <<profile, hist, rt, line, ev, vec_in, vec_out,
                   text, out>>

\* ConfSection::set_value on the Section child_mut reaches by path
SetValue ==
    /\ mode = "ready"
    /\ \E path \in Paths(doc), v \in Values :
         /\ doc' = PutAt(doc, path, ConfSection_set_value(SecAt(doc, path), v))
         /\ last' = Call("set_value", "-", path, << >>, Text(v), "absent")
    /\ UNCHANGED <<profile, mode, hist, rt, line, ev, vec_in, vec_out,
                   text, out>>

\* Into<String>::into consumes the Document; from_str parses its text back
RoundTrip ==
    /\ mode = "ready"
    /\ \E s \in Confindent_into(doc) :
         \E o \in from_str(s, profile) : rt' = o
    /\ mode' = "consumed"
    /\ last' = NoCall("round_trip")
    /\ UNCHANGED <<profile, doc, hist, line, ev, vec_in, vec_out,
                   text, out>>

Next ==
    \/ ParseLine
    \/ FromStrReturn
    \/ CreateChildTop
    \/ CreateChildSec
    \/ SetValue
    \/ RoundTrip

Spec == Init /\ [][Next]_vars

---------------------------------------------------------------------------
(* Claims checked under Spec *)

\* the last event before n in hist with the given depth, 0 if none
NearestAt(n, d) ==
    LET js == {j \in 1..(n - 1) : hist[j].depth = d}
    IN IF js = {} THEN 0 ELSE CHOOSE j \in js : \A h \in js : h <= j

\* C1: every parsed line of depth d > 0 is attached as a child of the Section
\* created by the nearest preceding line of depth d - 1, when there is one,
\* at every nesting level.
C1_NearestParent ==
    \A n \in 1..Len(hist) :
        LET j == NearestAt(n, hist[n].depth - 1)
        IN (hist[n].depth > 0 /\ j > 0)
               => hist[n].at = hist[j].at \o <<hist[j].key>>

\* top-level Sections have depth 0, children their parent's depth + 1
WellFormed(m) ==
    \A p \in Paths(m) : SecAt(m, p).indent_level = Len(p) - 1

\* C2: for a Document built with tab indentation only (every builder line
\* is; here also: one whose depths agree with its nesting), parsing its
\* serialized text gives back an identical tree (keys, depths, values,
\* children).
C2_RoundTrip ==
    (mode = "consumed" /\ WellFormed(doc)) => rt = Ok(doc)

\* the events before n that declared the top-level Sections n's attach saw
TopDecls(n) ==
    {j \in 1..(n - 1) :
        /\ hist[j].at = << >>
        /\ \A h \in (j + 1)..(n - 1) :
              ~(hist[h].at = << >> /\ hist[h].key = hist[j].key)}

\* C3: when several top-level Sections have depth d - 1 as a depth-d line is
\* attached, the line becomes a child of the most recently declared of them.
C3_MostRecentCandidate ==
    \A n \in 1..Len(hist) :
        LET cand == {j \in TopDecls(n) : hist[j].depth = hist[n].depth - 1}
        IN (hist[n].depth > 0 /\ Cardinality(cand) > 1)
               => \E j \in cand : /\ \A h \in cand : h <= j
                                   /\ hist[n].at = <<hist[j].key>>

\* C4: from_str never aborts, whatever the lines.
C4_ParseTotal == mode # "parse_panic"

\* every mapping of the tree has one entry per key
UniqueKeys(m) ==
    \A path \in {<< >>} \cup Paths(m) :
        \A e1, e2 \in MapAt(m, path) : e1.key = e2.key => e1 = e2

\* C8: every mapping holds at most one entry per key, and an insert
\* (create_child, or a parsed line) leaves under its key exactly one entry,
\* with the new value and no children, the other entries as they were.
C8_Overwrite ==
    [][/\ UniqueKeys(doc')
       /\ (last'.op \in {"create_child", "line"} /\ last'.ev = "Some") =>
             LET before == MapAt(doc, last'.path)
                 after == MapAt(doc', last'.path)
                 under == {e \in after : e.key = last'.key}
             IN /\ Cardinality(under) = 1
                /\ \A e \in under : /\ e.sec.value = last'.value
                                     /\ e.sec.children = {}
                /\ {e \in after : e.key # last'.key}
                      = {e \in before : e.key # last'.key}]_vars

\* C8 witness: a create_child displaced an entry that had children
C8_Witness ==
    /\ last.op = "create_child"
    /\ last.ev = "Some"
    /\ last.old = "subtree"
    /\ Cardinality(MapAt(doc, last.path)) > 1

\* C10: every Section that is a child of a Section has its parent's depth + 1.
C10_DepthInvariant ==
    \A p \in Paths(doc) :
        Len(p) >= 2 =>
            SecAt(doc, p).indent_level
                = SecAt(doc, SubSeq(p, 1, Len(p) - 1)).indent_level + 1

---------------------------------------------------------------------------
(* SpecLine: ConfSection::parse as a function of one line *)

MaxLen == 4         \* characters of an enumerated line

LineAlphabet == {TAB, SP, "K", "V"}

Spaces(n) == [i \in 1..n |-> SP]

\* every line of up to MaxLen characters, and lines around U8Max units
LineInputs ==
    UNION {[1..n -> LineAlphabet] : n \in 0..MaxLen}
    \cup {Tabs(U8Max) \o <<"K">>, Tabs(U8Max + 1) \o <<"K">>,
          Spaces(2 * (U8Max + 1)) \o <<"K", SP, "V">>}

InitLine ==
    /\ profile \in Profiles
    /\ mode = "line"
    /\ line \in LineInputs
    /\ ev = NoResult
    /\ doc = HashNew
    /\ hist = << >>
    /\ last = NoCall("new")
    /\ rt = NoResult
    /\ vec_in = Empty
    /\ vec_out = NoResult
    /\ text = << >>
    /\ out = NoResult

ParseCall ==
    /\ mode = "line"
    /\ ev' = ConfSection_parse(line, profile)
    /\ mode' = "parsed"
    /\ UNCHANGED <<profile, doc, hist, last, rt, line, vec_in, vec_out, text, out>>

NextLine == ParseCall

SpecLine == InitLine /\ [][NextLine]_vars

NonEmpty(t) == t # << >>

\* the pieces of s between runs of whitespace
Tokens(s) == SelectSeq(split(s, Whitespace), NonEmpty)

NonBlank(l) == \E i \in 1..Len(l) : ~is_whitespace(l[i])

\* s[1..p] is made of whole indentation units: tabs and spaces only, an even
\* number of spaces before each tab and before the end
WholeUnits(s, p) ==
    /\ \A i \in 1..p : s[i] \in {TAB, SP}
    /\ \A q \in 0..p :
          (q = p \/ s[q + 1] = TAB)
              => Cardinality({i \in 1..q : s[i] = SP}) % 2 = 0

\* the number of characters the leading indentation units of s take
IndentLen(s) ==
    CHOOSE p \in 0..Len(s) :
        WholeUnits(s, p) /\ \A q \in (p + 1)..Len(s) : ~WholeUnits(s, q)

\* the number of leading indentation units of s, as an unbounded integer
Units(s) ==
    LET p == IndentLen(s)
        spaces == Cardinality({i \in 1..p : s[i] = SP})
    IN (p - spaces) + spaces \div 2

\* C5: the text after the indentation is split on whitespace runs: the key is
\* the first token, the value Text(second token) or Empty, further tokens are
\* dropped, and there is no event without a first token (lines of at most
\* U8Max units, so that the depth counter plays no part).
C5_WhitespaceRuns ==
    (mode = "parsed" /\ NonBlank(line) /\ Units(line) <= U8Max) =>
        LET toks == Tokens(Drop(line, IndentLen(line)))
        IN IF toks = << >>
           THEN ev = None
           ELSE /\ ev.kind = "Some"
                /\ ev.key = toks[1]
                /\ ev.sec.value = IF Len(toks) >= 2 THEN Text(toks[2]) ELSE Empty

\* C6: the depth recorded for a parsed line is the number of indentation
\* units (a tab, or two spaces) at its start, whatever that number.
C6_ExactDepth ==
    (mode = "parsed" /\ NonBlank(line)) =>
        /\ ev.kind = "Some"
        /\ ev.sec.indent_level = Units(line)

---------------------------------------------------------------------------
(* SpecVec: ConfSection::get_vec::<u8> as a function of the Section's value *)

MaxVecLen == 4      \* characters of a value

VecAlphabet == {"1", "2", "x", ",", SP}

VecInputs ==
    {Empty} \cup {Text(s) : s \in UNION {[1..n -> VecAlphabet] : n \in 0..MaxVecLen}}

InitVec ==
    /\ profile \in Profiles
    /\ mode = "vec"
    /\ vec_in \in VecInputs
    /\ vec_out = NoResult
    /\ line = << >>
    /\ ev = NoResult
    /\ doc = HashNew
    /\ hist = << >>
    /\ last = NoCall("new")
    /\ rt = NoResult
    /\ text = << >>
    /\ out = NoResult

GetVec ==
    /\ mode = "vec"
    /\ vec_out' = get_vec(vec_in)
    /\ mode' = "vec_done"
    /\ UNCHANGED <<profile, doc, hist, last, rt, line, ev, vec_in, text, out>>

NextVec == GetVec

SpecVec == InitVec /\ [][NextVec]_vars

\* the positions of the commas of s, with both ends
Cuts(s) == {0, Len(s) + 1} \cup {i \in 1..Len(s) : s[i] = ","}

\* the comma-separated pieces of s, as [from, to] position pairs
PieceSpans(s) ==
    {<<a, b>> \in Cuts(s) \X Cuts(s) :
        a < b /\ \A c \in Cuts(s) : ~(a < c /\ c < b)}

PieceAt(s, span) == trim(SubSeq(s, span[1] + 1, span[2] - 1))

\* C7: get_vec returns the converted pieces, in order, exactly when the
\* value is Text and every trimmed comma-separated piece converts; otherwise
\* it returns no value, never a partial list.
C7_AllOrNothing ==
    mode = "vec_done" =>
        IF vec_in.tag = "Text"
              /\ \A sp \in PieceSpans(vec_in.s) :
                    u8_from_str(PieceAt(vec_in.s, sp)).kind = "Ok"
        THEN /\ vec_out.kind = "Some"
             /\ Len(vec_out.v) = Cardinality(PieceSpans(vec_in.s))
             /\ \A sp \in PieceSpans(vec_in.s) :
                   LET i == Cardinality({c \in Cuts(vec_in.s) : c <= sp[1]})
                   IN vec_out.v[i] = u8_from_str(PieceAt(vec_in.s, sp)).v
        ELSE vec_out = None

\* C7 witness: a value with a piece that converts and one that does not
C7_Witness ==
    /\ mode = "vec_done"
    /\ vec_in.tag = "Text"
    /\ vec_out = None
    /\ \E sp \in PieceSpans(vec_in.s) :
          u8_from_str(PieceAt(vec_in.s, sp)).kind = "Ok"
    /\ \E sp \in PieceSpans(vec_in.s) :
          u8_from_str(PieceAt(vec_in.s, sp)).kind = "Err"

---------------------------------------------------------------------------
(* SpecText: Confindent::from_str on a text and on the same text with blank *)
(* lines inserted                                                          *)

MaxTextLines == 3   \* lines of the text
MaxPad == 2         \* copies of the blank line inserted

TextLines == {<<"A">>, <<TAB, "B">>, <<TAB, "A", SP, "1">>, <<SP, SP>>}

\* blank lines: empty, indent only, a lone space, more than U8Max tabs
PadLines == {<< >>, <<TAB>>, <<SP>>, Tabs(U8Max + 1)}

Range(f) == {f[i] : i \in DOMAIN f}

\* the lines joined by line ends
RECURSIVE Join(_)
Join(ls) ==
    IF ls = << >> THEN << >>
    ELSE IF Len(ls) = 1 THEN ls[1]
    ELSE ls[1] \o <<NL>> \o Join(Tail(ls))

\* base with n copies of blank inserted after its first pos lines
Padded(t) ==
    SubSeq(t.base, 1, t.pos)
        \o [i \in 1..t.n |-> t.blank]
        \o SubSeq(t.base, t.pos + 1, Len(t.base))

TextInputs ==
    {[base |-> b, blank |-> p, pos |-> i, n |-> n] :
        b \in UNION {[1..k -> TextLines] : k \in 0..MaxTextLines},
        p \in PadLines, i \in 0..MaxTextLines, n \in 1..MaxPad}

InitText ==
    /\ profile \in Profiles
    /\ mode = "text"
    /\ text \in {t \in TextInputs : t.pos <= Len(t.base)}
    /\ out = NoResult
    /\ vec_in = Empty
    /\ vec_out = NoResult
    /\ line = << >>
    /\ ev = NoResult
    /\ doc = HashNew
    /\ hist = << >>
    /\ last = NoCall("new")
    /\ rt = NoResult

FromStrBoth ==
    /\ mode = "text"
    /\ out' = [kind |-> "Both",
               plain |-> from_str(Join(text.base), profile),
               padded |-> from_str(Join(Padded(text)), profile)]
    /\ mode' = "text_done"
    /\ UNCHANGED <<profile, doc, hist, last, rt, line, ev, vec_in, vec_out, text>>

NextText == FromStrBoth

SpecText == InitText /\ [][NextText]_vars

\* C9: blank lines (empty or whitespace only) inserted anywhere in a text do
\* not change what from_str returns, and a text of whitespace only yields the
\* empty Document.
C9_BlankInert ==
    mode = "text_done" =>
        /\ out.padded = out.plain
        /\ (\A l \in Range(Padded(text)) : ~NonBlank(l))
              => out.padded = {Ok(HashNew)}

\* C9 witness: blank lines went between a parent line and its child line
C9_Witness ==
    /\ mode = "text_done"
    /\ text.pos = 1
    /\ Len(text.base) >= 2
    /\ text.base[1] = <<"A">>
    /\ text.base[2] = <<TAB, "B">>
    /\ text.blank = <<TAB>>
    /\ \E o \in out.padded :
          o.kind = "Ok" /\ \E e \in o.sections : e.sec.children # {}

=============================================================================
